---------------------------- MODULE Spec2Model ----------------------------
(***************************************************************************)
(* Model of src/rpf.py: the resolution of a (journal, doi) pair into the   *)
(* link of the review process file (RPF) of an EMBO Press article, and the *)
(* live test of that link through the proxy.                               *)
(*                                                                         *)
(* A Python str is modelled as the sequence of its characters, each        *)
(* character a one-character string; '' is the empty sequence <<>>.        *)
(***************************************************************************)
EXTENDS Integers, Sequences, FiniteSets

VARIABLES
    pc,           \* position of the single thread: idle, construct, generate, test, post, done
    entry,        \* the top-level operation in progress (or last finished)
    journal_arg,  \* argument journal of generate_rpf_link, as passed
    journal,      \* local journal of generate_rpf_link after line 132
    doi,          \* argument doi
    cls,          \* the strategy class being constructed / called
    ctor_delay,   \* argument delay_requests given to the constructor
    ctor_args,    \* extra positional arguments (*args) given to the constructor
    resolver,     \* the strategy object: <<>> (none) or <<[cls, delay_requests]>>
    resolved,     \* what resolve(doi) returned in this call: <<>> (not called) or <<url>>
    link,         \* the candidate link: <<>> (none) or <<url>>
    slept,        \* the durations slept in this call, in order
    posts,        \* the urls posted to the proxy in this call, in order
    response,     \* the outcomes of those posts, in order
    outcome,      \* how the operation ended: none, returned, raised
    ret,          \* the returned str (when outcome = returned)
    exc,          \* the exception raised (when outcome = raised)
    constructed,  \* number of constructor invocations in this operation
    resolves      \* number of resolve() invocations in this operation

vars ==
    <<pc, entry, journal_arg, journal, doi, cls, ctor_delay, ctor_args, resolver, resolved,
      link, slept, posts, response, outcome, ret, exc, constructed, resolves>>

---------------------------------------------------------------------------
(* Bounds of the model. *)

\* longest run of whitespace put before and after a journal name
MaxPad ==
    1

\* longest landing-page url handed back by resolve()
MaxResolvedLen ==
    7

\* longest doi suffix (the part after "10.<digits>/") given to the generator
MaxSuffixLen ==
    3

---------------------------------------------------------------------------
(* Program constants. *)

\* randint(5, 20)
MinDelay ==
    5

MaxDelay ==
    20

\* \d{4,9}
MinPrefixDigits ==
    4

MaxPrefixDigits ==
    9

HTTP_OK ==
    200

---------------------------------------------------------------------------
(* String literals of the program and of the inputs. *)

\* 'the embo journal'
THE_EMBO_JOURNAL ==
    <<"t","h","e"," ","e","m","b","o"," ","j","o","u","r","n","a","l">>

\* 'embo reports'
EMBO_REPORTS ==
    <<"e","m","b","o"," ","r","e","p","o","r","t","s">>

\* 'embo molecular medicine'
EMBO_MOLECULAR_MEDICINE ==
    <<"e","m","b","o"," ","m","o","l","e","c","u","l","a","r"," ","m","e","d","i","c","i","n",
      "e">>

\* 'molecular systems biology'
MOLECULAR_SYSTEMS_BIOLOGY ==
    <<"m","o","l","e","c","u","l","a","r"," ","s","y","s","t","e","m","s"," ","b","i","o","l",
      "o","g","y">>

\* 'life science alliance'
LIFE_SCIENCE_ALLIANCE ==
    <<"l","i","f","e"," ","s","c","i","e","n","c","e"," ","a","l","l","i","a","n","c","e">>

\* 'nature'
NATURE ==
    <<"n","a","t","u","r","e">>

\* 'embo report'
EMBO_REPORT ==
    <<"e","m","b","o"," ","r","e","p","o","r","t">>

\* 'emboreports'
EMBOREPORTS ==
    <<"e","m","b","o","r","e","p","o","r","t","s">>

\* 'embo\treports'
EMBO_TAB_REPORTS ==
    <<"e","m","b","o","\t","r","e","p","o","r","t","s">>

\* 'life science alliance 2'
LIFE_SCIENCE_ALLIANCE_2 ==
    <<"l","i","f","e"," ","s","c","i","e","n","c","e"," ","a","l","l","i","a","n","c","e"," ",
      "2">>

\* 'https://www.embopress.org/action/downloadSupplement?doi='
EMBO_LINK_DOI ==
    <<"h","t","t","p","s",":","/","/","w","w","w",".","e","m","b","o","p","r","e","s","s",".",
      "o","r","g","/","a","c","t","i","o","n","/","d","o","w","n","l","o","a","d","S","u","p",
      "p","l","e","m","e","n","t","?","d","o","i","=">>

\* '&file='
EMBO_LINK_FILE ==
    <<"&","f","i","l","e","=">>

\* '.reviewer_comments.pdf'
EMBO_LINK_TAIL ==
    <<".","r","e","v","i","e","w","e","r","_","c","o","m","m","e","n","t","s",".","p","d","f">>

\* 'https://www.life-science-alliance.org/content/lsa/'
LSA_LINK_HEAD ==
    <<"h","t","t","p","s",":","/","/","w","w","w",".","l","i","f","e","-","s","c","i","e","n",
      "c","e","-","a","l","l","i","a","n","c","e",".","o","r","g","/","c","o","n","t","e","n",
      "t","/","l","s","a","/">>

\* '.reviewer-comments.pdf'
LSA_LINK_TAIL ==
    <<".","r","e","v","i","e","w","e","r","-","c","o","m","m","e","n","t","s",".","p","d","f">>

\* 'application/pdf'
APPLICATION_PDF ==
    <<"a","p","p","l","i","c","a","t","i","o","n","/","p","d","f">>

\* 'application/pdf; charset=binary'
CT_PDF_CHARSET ==
    <<"a","p","p","l","i","c","a","t","i","o","n","/","p","d","f",";"," ","c","h","a","r","s",
      "e","t","=","b","i","n","a","r","y">>

\* 'x-application/pdf'
CT_X_PDF ==
    <<"x","-","a","p","p","l","i","c","a","t","i","o","n","/","p","d","f">>

\* 'application/pd'
CT_TRUNCATED ==
    <<"a","p","p","l","i","c","a","t","i","o","n","/","p","d">>

\* 'Application/PDF'
CT_UPPER ==
    <<"A","p","p","l","i","c","a","t","i","o","n","/","P","D","F">>

\* 'text/html'
CT_HTML ==
    <<"t","e","x","t","/","h","t","m","l">>

\* '10.15252/embr.201847097'
DOI_EMBR ==
    <<"1","0",".","1","5","2","5","2","/","e","m","b","r",".","2","0","1","8","4","7","0","9",
      "7">>

\* '10.15252/msb'
DOI_NO_DOT ==
    <<"1","0",".","1","5","2","5","2","/","m","s","b">>

EMPTY ==
    <<>>

---------------------------------------------------------------------------
(* str helpers. *)

UPPERCASE ==
    <<"A","B","C","D","E","F","G","H","I","J","K","L","M","N","O","P","Q","R","S","T","U","V",
      "W","X","Y","Z">>

LOWERCASE ==
    <<"a","b","c","d","e","f","g","h","i","j","k","l","m","n","o","p","q","r","s","t","u","v",
      "w","x","y","z">>

DIGITS ==
    {"0","1","2","3","4","5","6","7","8","9"}

\* the characters str.strip() removes, among those the inputs use
WHITESPACE ==
    {" ", "\t", "\n"}

Range(s) ==
    {s[i] : i \in 1..Len(s)}

Max(S) ==
    CHOOSE m \in S : \A n \in S : n <= m

Min(S) ==
    CHOOSE m \in S : \A n \in S : m <= n

\* all sequences over A of length at most n
SeqsUpTo(A, n) ==
    UNION {[1..k -> A] : k \in 0..n}

lower_char(c) ==
    IF \E i \in 1..26 : UPPERCASE[i] = c
      THEN LOWERCASE[CHOOSE i \in 1..26 : UPPERCASE[i] = c]
      ELSE c

upper_char(c) ==
    IF \E i \in 1..26 : LOWERCASE[i] = c
      THEN UPPERCASE[CHOOSE i \in 1..26 : LOWERCASE[i] = c]
      ELSE c

\* str.lower()
lower(s) ==
    SubSeq([i \in 1..Len(s) |-> lower_char(s[i])], 1, Len(s))

\* str.upper(), used to build inputs
upper(s) ==
    SubSeq([i \in 1..Len(s) |-> upper_char(s[i])], 1, Len(s))

\* str.title(), used to build inputs
title(s) ==
    SubSeq([i \in 1..Len(s) |->
               IF i = 1 \/ s[i - 1] \in WHITESPACE THEN upper_char(s[i]) ELSE s[i]], 1, Len(s))

\* str.strip(): drop the leading and the trailing whitespace
strip(s) ==
    LET keep == {i \in 1..Len(s) : s[i] \notin WHITESPACE}
    IN  IF keep = {}
          THEN EMPTY
          ELSE SubSeq(s, CHOOSE i \in keep : \A j \in 1..(i - 1) : s[j] \in WHITESPACE,
                         CHOOSE i \in keep : \A j \in (i + 1)..Len(s) : s[j] \in WHITESPACE)

\* needle in haystack
contains(haystack, needle) ==
    \E i \in 0..(Len(haystack) - Len(needle)) :
        SubSeq(haystack, i + 1, i + Len(needle)) = needle

---------------------------------------------------------------------------
(* Regular expressions, as far as the program uses them: a pattern is a    *)
(* sequence of items, each a character class with a repetition range       *)
(* (max = -1: no upper limit).                                             *)

\* [-_;()/:a-zA-Z0-9]
SEGMENT_CHARS ==
    {"-", "_", ";", "(", ")", "/", ":"} \cup Range(LOWERCASE) \cup Range(UPPERCASE) \cup DIGITS

lit(c) ==
    [cls |-> "lit", ch |-> c, min |-> 1, max |-> 1]

rep(class, lo, hi) ==
    [cls |-> class, ch |-> "", min |-> lo, max |-> hi]

class_has(item, c) ==
    CASE item.cls = "lit"   -> c = item.ch
      [] item.cls = "any"   -> c # "\n"           \* an unescaped '.', without re.DOTALL
      [] item.cls = "digit" -> c \in DIGITS       \* \d
      [] item.cls = "seg"   -> c \in SEGMENT_CHARS

\* the offsets at which a match of the items, begun at offset p of s, can end
RECURSIVE match_ends(_, _, _)
match_ends(items, s, p) ==
    IF items = <<>>
      THEN {p}
      ELSE LET item == Head(items)
               most == IF item.max = -1 \/ item.max > Len(s) - p THEN Len(s) - p ELSE item.max
               counts == {n \in item.min..most : \A j \in 1..n : class_has(item, s[p + j])}
           IN  UNION {match_ends(Tail(items), s, p + n) : n \in counts}

\* '$' without re.MULTILINE: at the end, or just before a newline that ends the string
at_end(s, p) ==
    \/ p = Len(s)
    \/ p = Len(s) - 1 /\ s[Len(s)] = "\n"

\* ^10.\d{4,9}/  (the '.' after 10 is unescaped)
DOI_PREFIX_RE ==
    <<lit("1"), lit("0"), rep("any", 1, 1), rep("digit", MinPrefixDigits, MaxPrefixDigits),
      lit("/")>>

\* ([-_;()/:a-zA-Z0-9]+)
SEGMENT_RE ==
    <<rep("seg", 1, -1)>>

\* \.
DOT_RE ==
    <<lit(".")>>

\* the matches of the whole pattern at offset 0 (where '^' holds), each as
\* <<start of group 1, end of group 1, start of group 2, end of group 2>>
doi_matches(s) ==
    {m \in UNION {UNION {UNION {{<<a, b, c, d>> : d \in match_ends(SEGMENT_RE, s, c)}
                                : c \in match_ends(DOT_RE, s, b)}
                         : b \in match_ends(SEGMENT_RE, s, a)}
                  : a \in match_ends(DOI_PREFIX_RE, s, 0)}
        : at_end(s, m[4])}

\* the match a greedy, backtracking matcher finds first: the longest choice for
\* each quantifier in turn
greedy(M) ==
    CHOOSE m \in M : \A n \in M :
        \/ m[1] > n[1]
        \/ m[1] = n[1] /\ m[2] > n[2]
        \/ m[1] = n[1] /\ m[2] = n[2] /\ m[4] >= n[4]

\* r'\1.\2': the replacement with the dot left between the groups
repl_doi_keeps_dot(s, m) ==
    SubSeq(s, m[1] + 1, m[4])

\* r'\1\2'
repl_doi(s, m) ==
    SubSeq(s, m[1] + 1, m[2]) \o SubSeq(s, m[3] + 1, m[4])

\* re.sub(r'^10.\d{4,9}/(...)\.(...)$', r'\1\2', doi): the match is replaced,
\* what follows it (a final newline) is kept, a doi without a match is returned as is
suffix_without_dot(s) ==
    LET M == doi_matches(s)
    IN  IF M = {}
          THEN s
          ELSE LET m == greedy(M)
               IN  repl_doi(s, m) \o SubSeq(s, m[4] + 1, Len(s))

\* \d+/\d+/e\d+
VOL_ISSUE_ENUMBER_RE ==
    <<rep("digit", 1, -1), lit("/"), rep("digit", 1, -1), lit("/"), lit("e"), rep("digit", 1, -1)>>

\* re.search(...): <<>> for None, else <<group(0)>> of the leftmost match, the
\* last \d+ taking all the digits it can
search_vol_issue_enumber(s) ==
    LET starts == {p \in 0..Len(s) : match_ends(VOL_ISSUE_ENUMBER_RE, s, p) # {}}
    IN  IF starts = {}
          THEN <<>>
          ELSE LET p == Min(starts)
               IN  <<SubSeq(s, p + 1, Max(match_ends(VOL_ISSUE_ENUMBER_RE, s, p)))>>

---------------------------------------------------------------------------
(* The link generators. *)

EjErEmmMsb ==
    "RPFLinkEjErEmmMsb"

LSA ==
    "RPFLinkLSA"

\* RPFLinkEjErEmmMsb._generate_link
EjErEmmMsb_generate_link(d) ==
    EMBO_LINK_DOI \o d \o EMBO_LINK_FILE \o suffix_without_dot(d) \o EMBO_LINK_TAIL

\* RPFLinkLSA._generate_link with the failed search passed over: a link without
\* volume, issue and number
LSA_generate_link_silent(url) ==
    LET found == search_vol_issue_enumber(url)
    IN  [exc |-> "",
         link |-> <<LSA_LINK_HEAD \o (IF found = <<>> THEN EMPTY ELSE found[1]) \o LSA_LINK_TAIL>>]

\* RPFLinkLSA._generate_link, given what resolve(doi) returned: the link, or
\* the AttributeError of None.group(0)
LSA_generate_link(url) ==
    LET found == search_vol_issue_enumber(url)
    IN  IF found = <<>>
          THEN [exc |-> "AttributeError", link |-> <<>>]
          ELSE [exc |-> "", link |-> <<LSA_LINK_HEAD \o found[1] \o LSA_LINK_TAIL>>]

---------------------------------------------------------------------------
(* The dispatcher. *)

EMBO_PRESS_JOURNALS ==
    {THE_EMBO_JOURNAL, EMBO_REPORTS, EMBO_MOLECULAR_MEDICINE, MOLECULAR_SYSTEMS_BIOLOGY}

\* journal.strip().lower()
normalise(j) ==
    lower(strip(j))

\* the dispatch with the last branch taken for a default class
select_resolver_default(j) ==
    IF j \in EMBO_PRESS_JOURNALS THEN EjErEmmMsb ELSE LSA

\* the class generate_rpf_link instantiates for the normalised journal, "" for none
select_resolver(j) ==
    IF j \in EMBO_PRESS_JOURNALS
      THEN EjErEmmMsb
      ELSE IF j = LIFE_SCIENCE_ALLIANCE THEN LSA ELSE ""

---------------------------------------------------------------------------
(* The answer of the proxy to requests.post, and what _test makes of it.   *)

\* the values of the content-type header the target sites are given
CONTENT_TYPES ==
    {APPLICATION_PDF, CT_PDF_CHARSET, CT_X_PDF, CT_TRUNCATED, CT_UPPER, CT_HTML, EMPTY}

\* solution.headers: a dict, as its set of <<key, value>> items
HEADERS ==
    {{}} \cup {{<<"content-type", v>>} : v \in CONTENT_TYPES}
         \cup {{<<"Content-Type", APPLICATION_PDF>>}}

\* solution: the keys status and headers, each present (<<value>>) or absent (<<>>)
SOLUTIONS ==
    [status : {<<>>, <<HTTP_OK>>, <<404>>}, headers : {<<>>} \cup {<<h>> : h \in HEADERS}]

\* the body of the proxy's response: not JSON, or a JSON object with or without solution
BODIES ==
    [json : {FALSE}, solution : {<<>>}]
        \cup [json : {TRUE}, solution : {<<>>} \cup {<<s>> : s \in SOLUTIONS}]

\* what requests.post does: raise, or hand back a response
ProxyOutcomes ==
    {[kind |-> k, status_code |-> 0, json |-> FALSE, solution |-> <<>>]
        : k \in {"Timeout", "ConnectionError"}}
    \cup {[kind |-> "response", status_code |-> c, json |-> b.json, solution |-> b.solution]
        : c \in {HTTP_OK, 503}, b \in BODIES}

\* dict.get(key, default)
dict_get(d, key, default) ==
    IF \E item \in d : item[1] = key
      THEN (CHOOSE item \in d : item[1] = key)[2]
      ELSE default

returned(v) ==
    [outcome |-> "returned", ret |-> v, exc |-> ""]

raised(e) ==
    [outcome |-> "raised", ret |-> EMPTY, exc |-> e]

\* _test without the look at the content type
test_outcome_any_content_type(lnk, r) ==
    IF r.kind # "response"
      THEN raised(r.kind)
      ELSE IF r.status_code # HTTP_OK \/ ~r.json
      THEN returned(EMPTY)
      ELSE IF r.solution = <<>> \/ r.solution[1].status = <<>> \/ r.solution[1].headers = <<>>
      THEN raised("KeyError")
      ELSE IF r.solution[1].status[1] # HTTP_OK
      THEN returned(EMPTY)
      ELSE returned(lnk)

\* RPFLinkAbstract._test from requests.post on: how the call ends for the
\* posted link and the proxy's answer r
test_outcome(lnk, r) ==
    IF r.kind # "response"
      THEN raised(r.kind)                       \* requests.post raises; nothing catches it
      ELSE IF r.status_code # HTTP_OK
      THEN returned(EMPTY)
      ELSE IF ~r.json
      THEN returned(EMPTY)                      \* except JSONDecodeError
      ELSE IF r.solution = <<>>
      THEN raised("KeyError")                   \* proxy_response_data['solution']
      ELSE IF r.solution[1].status = <<>>
      THEN raised("KeyError")                   \* ['solution']['status']
      ELSE IF r.solution[1].headers = <<>>
      THEN raised("KeyError")                   \* ['solution']['headers']
      ELSE IF r.solution[1].status[1] # HTTP_OK
      THEN returned(EMPTY)
      ELSE IF contains(dict_get(r.solution[1].headers[1], "content-type", EMPTY),
                       APPLICATION_PDF)
      THEN returned(lnk)
      ELSE returned(EMPTY)

---------------------------------------------------------------------------
(* The inputs. *)

JOURNAL_NAMES ==
    EMBO_PRESS_JOURNALS \cup
    {LIFE_SCIENCE_ALLIANCE, NATURE, EMBO_REPORT, EMBOREPORTS, EMBO_TAB_REPORTS,
     LIFE_SCIENCE_ALLIANCE_2, EMPTY}

Pads ==
    SeqsUpTo(WHITESPACE, MaxPad)

\* each name in lower case, in upper case and in title case, between whitespace
Journals ==
    {l \o n \o r : l \in Pads, r \in Pads,
                   n \in UNION {{name, upper(name), title(name)} : name \in JOURNAL_NAMES}}

Dois ==
    {DOI_EMBR, DOI_NO_DOT}

\* what resolve(doi) may hand back
ResolvedUrls ==
    SeqsUpTo({"1", "/", "e", "x"}, MaxResolvedLen)

\* the extra positional arguments of a constructor call: none, a super object,
\* an object of another type
CtorArgs ==
    {<<>>, <<"super">>, <<"int">>}

---------------------------------------------------------------------------
(* The operations. One thread runs them; pc is its position.               *)

\* the locals of an operation, as they are when it begins
Begin ==
    /\ resolved' = <<>>
    /\ link' = <<>>
    /\ slept' = <<>>
    /\ posts' = <<>>
    /\ response' = <<>>
    /\ ret' = EMPTY
    /\ exc' = ""
    /\ constructed' = 0
    /\ resolves' = 0

\* generate_rpf_link(journal, doi), lines 132-138: normalise, choose the class
generate_rpf_link ==
    /\ pc = "idle"
    /\ \E j \in Journals, d \in Dois :
        /\ journal_arg' = j
        /\ journal' = normalise(j)
        /\ doi' = d
    /\ Begin
    /\ entry' = "generate_rpf_link"
    /\ cls' = select_resolver(journal')
    /\ resolver' = <<>>
    /\ ctor_delay' = TRUE
    /\ ctor_args' = <<>>
    /\ IF cls' = ""
         THEN pc' = "done" /\ outcome' = "returned"
         ELSE pc' = "construct" /\ outcome' = "none"

\* a user of the module instantiates a class: c(delay_requests, *args)
new_resolver ==
    /\ pc = "idle"
    /\ \E c \in {EjErEmmMsb, LSA}, delay_requests \in BOOLEAN, args \in CtorArgs :
        /\ cls' = c
        /\ ctor_delay' = delay_requests
        /\ ctor_args' = args
    /\ Begin
    /\ entry' = "new"
    /\ resolver' = <<>>
    /\ pc' = "construct"
    /\ outcome' = "none"
    /\ UNCHANGED <<journal_arg, journal, doi>>

\* RPFLinkAbstract.__init__, lines 32-34. super.__init__ is the slot of the
\* type super itself: it takes its object from *args, and raises TypeError
\* when there is none or when it is no super object.
init ==
    /\ pc = "construct"
    /\ constructed' = constructed + 1
    /\ IF ctor_args # <<"super">>
         THEN /\ resolver' = <<>>
              /\ pc' = "done"
              /\ outcome' = "raised"
              /\ exc' = "TypeError"
         ELSE /\ resolver' = <<[cls |-> cls, delay_requests |-> TRUE]>>
              /\ pc' = IF entry = "generate_rpf_link" THEN "generate" ELSE "done"
              /\ outcome' = IF entry = "generate_rpf_link" THEN "none" ELSE "constructed"
              /\ exc' = ""
    /\ UNCHANGED <<entry, journal_arg, journal, doi, cls, ctor_delay, ctor_args, resolved, link,
                   slept, posts, response, ret, resolves>>

\* a user of the module calls the object it holds: resolver(doi), line 82
call ==
    /\ pc = "idle"
    /\ resolver # <<>>
    /\ \E d \in Dois : doi' = d
    /\ Begin
    /\ entry' = "call"
    /\ pc' = "generate"
    /\ outcome' = "none"
    /\ UNCHANGED <<journal_arg, journal, cls, ctor_delay, ctor_args, resolver>>

\* line 83: self._generate_link(doi), of the object's class
generate_link ==
    /\ pc = "generate"
    /\ IF resolver[1].cls = EjErEmmMsb
         THEN /\ link' = <<EjErEmmMsb_generate_link(doi)>>
              /\ pc' = "test"
              /\ UNCHANGED <<resolved, resolves, outcome, exc>>
         ELSE \E url \in ResolvedUrls :
              /\ resolved' = <<url>>
              /\ resolves' = resolves + 1
              /\ link' = LSA_generate_link(url).link
              /\ exc' = LSA_generate_link(url).exc
              /\ pc' = IF LSA_generate_link(url).exc = "" THEN "test" ELSE "done"
              /\ outcome' = IF LSA_generate_link(url).exc = "" THEN "none" ELSE "raised"
    /\ UNCHANGED <<entry, journal_arg, journal, doi, cls, ctor_delay, ctor_args, resolver, slept,
                   posts, response, ret, constructed>>

\* _test, lines 49-55: nothing to test, or the delay before the request
test_delay ==
    /\ pc = "test"
    /\ IF link[1] = EMPTY
         THEN pc' = "done" /\ outcome' = "returned" /\ ret' = EMPTY /\ UNCHANGED slept
         ELSE /\ pc' = "post"
              /\ UNCHANGED <<outcome, ret>>
              /\ IF resolver[1].delay_requests
                   THEN \E duration \in MinDelay..MaxDelay : slept' = Append(slept, duration)
                   ELSE UNCHANGED slept
    /\ UNCHANGED <<entry, journal_arg, journal, doi, cls, ctor_delay, ctor_args, resolver, resolved,
                   link, posts, response, exc, constructed, resolves>>

\* _test with a second request after a request that gave no link
test_post_retry ==
    /\ pc = "post"
    /\ \E r \in ProxyOutcomes :
        /\ posts' = Append(posts, link[1])
        /\ response' = Append(response, r)
        /\ outcome' = test_outcome(link[1], r).outcome
        /\ ret' = test_outcome(link[1], r).ret
        /\ exc' = test_outcome(link[1], r).exc
        /\ pc' = IF test_outcome(link[1], r).ret = EMPTY /\ posts = <<>> THEN "post" ELSE "done"
    /\ UNCHANGED <<entry, journal_arg, journal, doi, cls, ctor_delay, ctor_args, resolver, resolved,
                   link, slept, constructed, resolves>>

\* _test, lines 57-80: the request to the proxy and the reading of its answer
test_post ==
    /\ pc = "post"
    /\ \E r \in ProxyOutcomes :
        /\ posts' = Append(posts, link[1])
        /\ response' = Append(response, r)
        /\ outcome' = test_outcome(link[1], r).outcome
        /\ ret' = test_outcome(link[1], r).ret
        /\ exc' = test_outcome(link[1], r).exc
    /\ pc' = "done"
    /\ UNCHANGED <<entry, journal_arg, journal, doi, cls, ctor_delay, ctor_args, resolver, resolved,
                   link, slept, constructed, resolves>>

\* the operation has ended and its caller goes on: the frame and its locals are
\* gone, an object the user of a class was given stays with that user
finish ==
    /\ pc = "done"
    /\ pc' = "idle"
    /\ Begin
    /\ entry' = ""
    /\ journal_arg' = EMPTY
    /\ journal' = EMPTY
    /\ doi' = EMPTY
    /\ outcome' = "none"
    /\ resolver' = IF entry = "generate_rpf_link" THEN <<>> ELSE resolver
    /\ cls' = IF entry = "generate_rpf_link" \/ resolver = <<>> THEN "" ELSE cls
    /\ ctor_delay' = IF entry = "generate_rpf_link" \/ resolver = <<>> THEN TRUE ELSE ctor_delay
    /\ ctor_args' = IF entry = "generate_rpf_link" \/ resolver = <<>> THEN <<>> ELSE ctor_args

Init ==
    /\ pc = "idle"
    /\ entry = ""
    /\ journal_arg = EMPTY
    /\ journal = EMPTY
    /\ doi = EMPTY
    /\ cls = ""
    /\ ctor_delay = TRUE
    /\ ctor_args = <<>>
    /\ resolver = <<>>
    /\ resolved = <<>>
    /\ link = <<>>
    /\ slept = <<>>
    /\ posts = <<>>
    /\ response = <<>>
    /\ outcome = "none"
    /\ ret = EMPTY
    /\ exc = ""
    /\ constructed = 0
    /\ resolves = 0

Next ==
    \/ generate_rpf_link
    \/ new_resolver
    \/ init
    \/ call
    \/ generate_link
    \/ test_delay
    \/ test_post
    \/ finish

Spec ==
    Init /\ [][Next]_vars

---------------------------------------------------------------------------
(* The generator of the four EMBO Press journals on its own: an object of  *)
(* the class is about to generate the link of a doi.                       *)

\* n times the character c
repeat(c, n) ==
    SubSeq([i \in 1..n |-> c], 1, n)

\* dois around the pattern 10.<4-9 digits>/<seg1>.<seg2>: the head, the
\* character after it, the number of digits, the suffix and a final newline vary
GenDois ==
    {head \o sep \o repeat("1", n) \o <<"/">> \o suffix \o tail :
        head \in {<<"1", "0">>, <<"1", "1">>},
        sep \in {<<".">>, <<"x">>, <<"\n">>, <<>>},
        n \in (MinPrefixDigits - 1)..(MaxPrefixDigits + 1),
        suffix \in SeqsUpTo({"a", "7", ".", "/", "#"}, MaxSuffixLen),
        tail \in {<<>>, <<"\n">>}}

GenInit ==
    /\ pc = "generate"
    /\ entry = "call"
    /\ journal_arg = EMPTY
    /\ journal = EMPTY
    /\ doi \in GenDois
    /\ cls = EjErEmmMsb
    /\ ctor_delay = TRUE
    /\ ctor_args = <<"super">>
    /\ resolver = <<[cls |-> EjErEmmMsb, delay_requests |-> TRUE]>>
    /\ resolved = <<>>
    /\ link = <<>>
    /\ slept = <<>>
    /\ posts = <<>>
    /\ response = <<>>
    /\ outcome = "none"
    /\ ret = EMPTY
    /\ exc = ""
    /\ constructed = 0
    /\ resolves = 0

GenNext ==
    generate_link

GenSpec ==
    GenInit /\ [][GenNext]_vars

---------------------------------------------------------------------------
(* The properties. *)

RECOGNIZED_JOURNALS ==
    {THE_EMBO_JOURNAL, EMBO_REPORTS, EMBO_MOLECULAR_MEDICINE, MOLECULAR_SYSTEMS_BIOLOGY,
     LIFE_SCIENCE_ALLIANCE}

\* the proxy answered 200, with a solution of status 200 and a content-type
\* header (none: '') that contains 'application/pdf'
ConfirmedPdf(r) ==
    /\ r.kind = "response"
    /\ r.status_code = 200
    /\ r.json
    /\ r.solution # <<>>
    /\ r.solution[1].status = <<200>>
    /\ r.solution[1].headers # <<>>
    /\ \E item \in r.solution[1].headers[1] :
          item[1] = "content-type" /\ contains(item[2], APPLICATION_PDF)

\* C1: an operation that returns a non-empty string has, in that operation,
\* posted exactly one request to the proxy, for the returned url, and the
\* proxy answered 200 with solution.status 200 and a content type that
\* contains 'application/pdf'.
C1_NonEmptyResultConfirmed ==
    (pc = "done" /\ outcome = "returned" /\ ret # EMPTY) =>
        /\ posts = <<ret>>
        /\ Len(response) = 1
        /\ ConfirmedPdf(response[1])

C1_Witness ==
    /\ pc = "done"
    /\ entry = "call"
    /\ outcome = "returned"
    /\ ret # EMPTY
    /\ posts = <<ret>>

\* C2: whatever response the proxy gives to the request for a non-empty link,
\* _test returns the link if the three conditions hold and returns '' if one
\* of them fails.
C2_TestReturnsLinkIffConfirmed ==
    (pc = "done" /\ Len(posts) = 1 /\ response[1].kind = "response") =>
        /\ outcome = "returned"
        /\ ret = IF ConfirmedPdf(response[1]) THEN posts[1] ELSE EMPTY

\* C3: generate_rpf_link with a journal whose trimmed, lowercased name is none
\* of the five returns '' and has constructed no strategy, resolved no doi,
\* not slept and posted nothing.
C3_UnrecognizedJournalReturnsEmpty ==
    (entry = "generate_rpf_link" /\ lower(strip(journal_arg)) \notin RECOGNIZED_JOURNALS) =>
        /\ pc = "done"
        /\ outcome = "returned"
        /\ ret = EMPTY
        /\ constructed = 0
        /\ resolver = <<>>
        /\ resolves = 0
        /\ slept = <<>>
        /\ posts = <<>>

C3_Witness ==
    /\ pc = "done"
    /\ entry = "generate_rpf_link"
    /\ lower(strip(journal_arg)) \notin RECOGNIZED_JOURNALS
    /\ journal_arg # journal
    /\ journal # EMPTY
    /\ outcome = "returned"
    /\ ret = EMPTY

\* C4: generate_rpf_link with a journal whose trimmed, lowercased name is one
\* of the five ends having constructed the strategy of that name, generated
\* the link, tested it, and returns what the test returned.
C4_RecognizedJournalRunsStrategy ==
    (entry = "generate_rpf_link" /\ pc = "done"
        /\ lower(strip(journal_arg)) \in RECOGNIZED_JOURNALS) =>
        /\ constructed = 1
        /\ resolver # <<>>
        /\ resolver[1].cls =
              IF lower(strip(journal_arg)) = LIFE_SCIENCE_ALLIANCE THEN LSA ELSE EjErEmmMsb
        /\ link # <<>>
        /\ Len(posts) = 1
        /\ outcome = "returned"
        /\ ret = IF ConfirmedPdf(response[1]) THEN link[1] ELSE EMPTY

\* a failure of the transport or of the proxy's response
ProxyFailure(r) ==
    \/ r.kind # "response"
    \/ r.status_code # 200
    \/ ~r.json
    \/ r.solution = <<>>
    \/ r.solution[1].status = <<>>
    \/ r.solution[1].headers = <<>>

\* C5: a request to the proxy that fails (no response, a status other than
\* 200, a body that is no JSON, a body without solution, solution.status or
\* solution.headers) ends in _test returning ''; nothing is raised.
C5_ProxyFailureReturnsEmpty ==
    (pc = "done" /\ Len(posts) = 1 /\ ProxyFailure(response[1])) =>
        /\ outcome = "returned"
        /\ ret = EMPTY

\* s[i..j] is a non-empty run of digits
DigitRun(s, i, j) ==
    /\ 1 <= i
    /\ i <= j
    /\ j <= Len(s)
    /\ \A x \in i..j : s[x] \in DIGITS

\* s has a substring <digits>/<digits>/e<digits>: the two slashes at j and k
HasVolIssueENumber(s) ==
    \E j \in {x \in 1..Len(s) : s[x] = "/"} :
        \E k \in {x \in (j + 1)..(Len(s) - 2) : s[x] = "/"} :
            /\ s[k + 1] = "e"
            /\ DigitRun(s, j + 1, k - 1)
            /\ \E i \in 1..(j - 1) : DigitRun(s, i, j - 1)
            /\ \E l \in (k + 2)..Len(s) : DigitRun(s, k + 2, l)

\* C6: when the landing page resolve() gave has no substring
\* <digits>/<digits>/e<digits>, the operation ends in an error raised to its
\* caller, with no candidate link, no delay and no request to the proxy.
C6_LSANoMatchRaises ==
    (resolved # <<>> /\ ~HasVolIssueENumber(resolved[1])) =>
        /\ pc = "done"
        /\ outcome = "raised"
        /\ link = <<>>
        /\ ret = EMPTY
        /\ slept = <<>>
        /\ posts = <<>>

C6_Witness ==
    /\ pc = "done"
    /\ resolver # <<>>
    /\ resolver[1].cls = LSA
    /\ resolves = 1
    /\ Len(resolved[1]) >= 6
    /\ ~HasVolIssueENumber(resolved[1])
    /\ outcome = "raised"
    /\ exc = "AttributeError"

\* C7: once the request to the proxy is due, an object constructed with
\* delay_requests true has slept once, 5 to 20 seconds, and an object
\* constructed with delay_requests=False has not slept.
C7_DelayFollowsSetting ==
    (resolver # <<>> /\ (pc = "post" \/ posts # <<>>)) =>
        IF ctor_delay
          THEN Len(slept) = 1 /\ slept[1] \in 5..20
          ELSE slept = <<>>

\* d is 10.<n digits>/<seg1>.<seg2> with the dot between the segments at k
TwoSegmentDoiAt(d, n, k) ==
    /\ Len(d) >= n + 7
    /\ d[1] = "1"
    /\ d[2] = "0"
    /\ d[3] = "."
    /\ \A i \in 4..(n + 3) : d[i] \in DIGITS
    /\ d[n + 4] = "/"
    /\ n + 5 < k
    /\ k < Len(d)
    /\ d[k] = "."
    /\ \A i \in (n + 5)..(k - 1) : d[i] \in SEGMENT_CHARS
    /\ \A i \in (k + 1)..Len(d) : d[i] \in SEGMENT_CHARS

TwoSegmentDoi(d) ==
    \E n \in 4..9, k \in 1..Len(d) : TwoSegmentDoiAt(d, n, k)

C9_OtherDoiPassedThrough ==
    (pc = "test" /\ resolver[1].cls = EjErEmmMsb /\ ~TwoSegmentDoi(doi)) =>
        link = <<EMBO_LINK_DOI \o doi \o EMBO_LINK_FILE \o doi \o EMBO_LINK_TAIL>>

=============================================================================
